---- MODULE Spec2Model ----
(***************************************************************************)
(* Model of the blog pipeline: the Drive-backed state document             *)
(* (app/state_client.py), image selection (app/drive_manager.py), the git  *)
(* publisher (app/git_publisher.py), the orchestrator (app/pipeline.py)    *)
(* and the retry helper of blog.py.                                        *)
(*                                                                         *)
(* Every remote call (Drive, git) may fail; the failing call of an         *)
(* operation is an input of the action that models the operation.          *)
(***************************************************************************)
EXTENDS Integers, Sequences, FiniteSets, TLC

\* ---------------------------------------------------------------- bounds
NumImages == 2
MaxNow == 1
NumListed == 4
MaxStamp == 1
MaxTries == 4
MaxPhotos == 3
MaxCaptions == 3
MaxBase == 2
MaxDelay == 3
MaxRuns == 2

\* MAX_PHOTOS_PER_POST = 5 in blog.py, scaled down with the folder
MAX_PHOTOS_PER_POST == 2

\* files().list(..., pageSize=200): the length of a listing page, scaled
\* down with the folders of the model
pageSize == 4

\* the images that are uploaded while the pipeline runs
Images == 1..NumImages

\* the images of a folder listed once
Listed == 1..NumListed
Days == 0..MaxNow

\* how long after its creation an image was last modified
Delays == 0..MaxStamp

\* config_loader.py: batch_size must be an integer between 1 and 4
MinBatch == 1
MaxBatch == 4
BatchSizes == MinBatch..MaxBatch

\* ------------------------------------------------------------- variables
VARIABLES
    now,            \* wall clock (datetime.now), in ticks
    state_json,     \* the state.json document stored on Drive
    state_file_id,  \* StateClient.state_file_id: TRUE once the id is cached
    last_call,      \* what the last direct StateClient call did
    folder,         \* ids of the images in the Drive input folder
    created_time,   \* Drive createdTime of each image
    modified_time,  \* Drive modifiedTime of each image
    batch_size,     \* DriveManager.batch_size
    files,          \* _list_images_in_folder: the page Drive returned
    all_images,     \* pick_new_images: the sorted listing
    new_images,     \* pick_new_images: the returned batch
    pc,             \* position of the runner
    tracked,        \* run: the secret files git ls-files reported as tracked
    wt,             \* the files of the working tree under blog/
    head,           \* the tree of the last local commit
    remote,         \* the tree of the branch at origin
    landed,         \* images referenced by a post that reached origin
    git_calls,      \* the git commands the last publish ran
    mock_mode,      \* AIProcessor.mock_mode (config ai.mock_mode)
    downloaded,     \* run: the downloaded images
    build_result,   \* run: the BuildResult, or NoBuild
    mark_idx,       \* _update_state: position in downloaded
    ok_count,       \* _update_state: ok_count
    result,         \* the PipelineResult of the last finished run
    calls,          \* the operations the current (or last) run invoked
    failed_at,      \* the step of the run that raised, or "none"
    doc_at_start,   \* the stored document when the run started
    steps,          \* run: the steps entered so far, in order
    mark_log,       \* _update_state: the outcome of each mark_processed
    ls_files_failed,\* _git_is_tracked: git ls-files could not be run
    tries,          \* retry: the argument tries
    outcomes,       \* retry: what the successive calls of fn do
    retry_st,       \* retry: attempt, last_err, sleeps and how it ended
    n_images,       \* ai_make_title_and_captions: n = len(images)
    data,           \* ai_make_title_and_captions: what the response parsed to
    ai_result,      \* ai_make_title_and_captions: the returned dict
    runner,         \* two concurrent runs: where each is and what it holds
    config_yaml,    \* config.yaml: the value of pipeline.batch_size
    cfg,            \* load_config: not called, raised, or the loaded value
    base_delay,     \* retry: the argument base_delay, in seconds
    max_delay,      \* retry: the argument max_delay, in seconds
    last_sleep,     \* retry: the latest delay computed and slept
    state_file,     \* blog.py: state.json in OUT_DIR
    blog            \* blog.py main: where it is and what it holds

storeVars == <<state_json, state_file_id, last_call>>
driveVars == <<folder, created_time, modified_time>>
pickVars == <<batch_size, files, all_images, new_images>>

gitVars == <<wt, head, remote, landed, git_calls>>
retryVars == <<tries, outcomes, retry_st, base_delay, max_delay, last_sleep>>
captionVars == <<n_images, data, ai_result>>
blogVars == <<retryVars, captionVars>>
raceVars == <<runner>>
cfgVars == <<config_yaml, cfg>>
mainVars == <<state_file, blog>>
runVars == <<mock_mode, downloaded, build_result, mark_idx, ok_count, result,
             calls, failed_at, doc_at_start, steps, mark_log,
             ls_files_failed>>

vars == <<now, state_json, state_file_id, last_call, folder, created_time,
          modified_time, batch_size, files, all_images, new_images, pc,
          tracked, wt, head, remote, landed, git_calls, mock_mode, downloaded,
          build_result, mark_idx, ok_count, result, calls, failed_at,
          doc_at_start, steps, mark_log, ls_files_failed, tries, outcomes,
          retry_st,
          n_images, data, ai_result, runner, config_yaml, cfg,
          base_delay, max_delay, last_sleep, state_file, blog>>

\* ------------------------------------------------------- sequence helpers
Range(s) == {s[k] : k \in 1..Len(s)}

\* the sequences that list every element of S exactly once
Orders(S) == {s \in [1..Cardinality(S) -> S] : Range(s) = S}

\* ------------------------------------------------------- state_client.py
Slugs == {"s1", "s2"}

\* A document: version 0 stands for a document without the key "version",
\* has_processed says that the key "processed" is there and holds a list.
\* no state.json in the folder yet
NoState == [exists |-> FALSE, version |-> 0, has_processed |-> FALSE,
            processed |-> <<>>]

\* {"version": 1, "processed": []}
empty_state == [exists |-> TRUE, version |-> 1, has_processed |-> TRUE,
                processed |-> <<>>]

\* the remote calls of StateClient that can fail
StateFaults == {"none", "find", "create", "get", "update"}

NoCall == [op |-> "none", id |-> 0, slug |-> "", raised |-> FALSE,
           created |-> FALSE,
           uploaded |-> FALSE, result |-> FALSE, state |-> NoState]

\* the StateClient and the document it works on
Client == [doc |-> state_json, cached |-> state_file_id]

\* any(item.get("file_id") == drive_file_id for item in state["processed"])
Recorded(doc, id) ==
    \E k \in 1..Len(doc.processed) : doc.processed[k].file_id = id

\* mutant: the cached id and the search are ignored, a document is created
\* on every call
ensure_state_file_always_creates(st, f) ==
    IF f = "find" \/ f = "create"
    THEN [raised |-> TRUE, doc |-> st.doc, cached |-> st.cached,
          created |-> FALSE]
    ELSE [raised |-> FALSE, doc |-> empty_state, cached |-> TRUE,
          created |-> TRUE]

\* ensure_state_file: cached id, else search, else create the empty document
\* created: _create_empty_state_file stored a new document
ensure_state_file(st, f) ==
    IF st.cached
    THEN [raised |-> FALSE, doc |-> st.doc, cached |-> TRUE,
          created |-> FALSE]
    ELSE IF f = "find"
    THEN [raised |-> TRUE, doc |-> st.doc, cached |-> FALSE,
          created |-> FALSE]
    ELSE IF st.doc.exists
    THEN [raised |-> FALSE, doc |-> st.doc, cached |-> TRUE,
          created |-> FALSE]
    ELSE IF f = "create"
    THEN [raised |-> TRUE, doc |-> st.doc, cached |-> FALSE,
          created |-> FALSE]
    ELSE [raised |-> FALSE, doc |-> empty_state, cached |-> TRUE,
          created |-> TRUE]

\* data.setdefault("version", 1)
setdefault_version(doc) == [doc EXCEPT !.version = IF @ = 0 THEN 1 ELSE @]

\* mutant: download_state does not look for the processed list
download_state_novalidate(st, f) ==
    LET e == ensure_state_file(st, f)
    IN  IF e.raised \/ f = "get"
        THEN [raised |-> TRUE, doc |-> e.doc, cached |-> e.cached,
              created |-> e.created,
              state |-> NoState]
        ELSE [raised |-> FALSE, doc |-> e.doc, cached |-> e.cached,
              created |-> e.created,
              state |-> setdefault_version(e.doc)]

\* download_state: ensure_state_file, get_media, json.loads, validation;
\* state is the dict it returns
download_state(st, f) ==
    LET e == ensure_state_file(st, f)
    IN  IF e.raised \/ f = "get" \/ ~e.doc.has_processed
        THEN [raised |-> TRUE, doc |-> e.doc, cached |-> e.cached,
              created |-> e.created,
              state |-> NoState]
        ELSE [raised |-> FALSE, doc |-> e.doc, cached |-> e.cached,
              created |-> e.created,
              state |-> setdefault_version(e.doc)]

\* mutant: the content is replaced although files().update raises
upload_state_writes_on_error(st, state, f) ==
    LET e == ensure_state_file(st, f)
    IN  IF e.raised THEN e
        ELSE IF f = "update" THEN [e EXCEPT !.raised = TRUE, !.doc = state]
        ELSE [e EXCEPT !.doc = state]

\* upload_state: ensure_state_file, then files().update replaces the content
upload_state(st, state, f) ==
    LET e == ensure_state_file(st, f)
    IN  IF e.raised THEN e
        ELSE IF f = "update" THEN [e EXCEPT !.raised = TRUE]
        ELSE [e EXCEPT !.doc = state]

\* mutant: a client that holds the file id answers from the document it
\* loaded first
is_processed_cached(st, id, f) ==
    LET d == download_state(st, f)
    IN  [raised |-> d.raised, doc |-> d.doc, cached |-> d.cached,
         created |-> d.created,
         result |-> (~d.raised /\
                     Recorded(IF st.cached THEN empty_state ELSE d.state, id))]

\* is_processed(drive_file_id)
is_processed(st, id, f) ==
    LET d == download_state(st, f)
    IN  [raised |-> d.raised, doc |-> d.doc, cached |-> d.cached,
         created |-> d.created,
         result |-> (~d.raised /\ Recorded(d.state, id))]

\* mutant: the uploaded state holds the new record only
with_record_only(doc, id, slug, t) ==
    [doc EXCEPT !.processed =
        <<[file_id |-> id, post_slug |-> slug, processed_at |-> t]>>]

\* the state with the new record appended
with_record(doc, id, slug, t) ==
    [doc EXCEPT !.processed =
        Append(@, [file_id |-> id, post_slug |-> slug, processed_at |-> t])]

\* mutant: the duplicate check of mark_processed is missing
mark_processed_nodedup(st, id, slug, t, f) ==
    LET d == download_state(st, f)
    IN  IF d.raised
        THEN [raised |-> TRUE, uploaded |-> FALSE, doc |-> d.doc,
              cached |-> d.cached, created |-> d.created]
        ELSE LET u == upload_state([doc |-> d.doc, cached |-> d.cached],
                                   with_record(d.state, id, slug, t), f)
             IN  [raised |-> u.raised, uploaded |-> TRUE, doc |-> u.doc,
                  cached |-> u.cached, created |-> d.created]

\* mark_processed(drive_file_id, post_slug) at time t
mark_processed(st, id, slug, t, f) ==
    LET d == download_state(st, f)
    IN  IF d.raised
        THEN [raised |-> TRUE, uploaded |-> FALSE, doc |-> d.doc,
              cached |-> d.cached, created |-> d.created]
        ELSE IF Recorded(d.state, id)
        THEN [raised |-> FALSE, uploaded |-> FALSE, doc |-> d.doc,
              cached |-> d.cached, created |-> d.created]
        ELSE LET u == upload_state([doc |-> d.doc, cached |-> d.cached],
                                   with_record(d.state, id, slug, t), f)
             IN  [raised |-> u.raised, uploaded |-> TRUE, doc |-> u.doc,
                  cached |-> u.cached, created |-> d.created]

\* ------------------------------------------------------- drive_manager.py
\* images.sort(key=lambda x: x.modified_time): a stable sort, here the
\* insertion of x after every element that is not newer than x
RECURSIVE insert_by_modified(_, _, _)
insert_by_modified(s, x, mt) ==
    IF s = <<>> THEN <<x>>
    ELSE IF mt[s[Len(s)]] <= mt[x] THEN Append(s, x)
    ELSE Append(insert_by_modified(SubSeq(s, 1, Len(s) - 1), x, mt), s[Len(s)])

RECURSIVE sort_by_modified(_, _)
sort_by_modified(s, mt) ==
    IF s = <<>> THEN <<>>
    ELSE insert_by_modified(sort_by_modified(SubSeq(s, 1, Len(s) - 1), mt),
                            s[Len(s)], mt)

\* The pages files().list can answer with for a folder holding S: Drive
\* returns at most pageSize files, in an order of its own; the request has
\* no orderBy and the code never asks for the next page.
Pages(S) ==
    IF Cardinality(S) <= pageSize THEN Orders(S)
    ELSE UNION {Orders(T) : T \in {U \in SUBSET S : Cardinality(U) = pageSize}}

\* mutant: the listing is returned in the order Drive gave it
_list_images_in_folder_unsorted(fs, mt) == fs

\* _list_images_in_folder: fs is the page Drive returned
_list_images_in_folder(fs, mt) == sort_by_modified(fs, mt)

\* mutant: the loop of pick_new_images never breaks
RECURSIVE pick_loop_nobreak(_, _, _, _, _, _)
pick_loop_nobreak(all, k, new, st, size, f) ==
    IF k > Len(all)
    THEN [raised |-> FALSE, images |-> new, doc |-> st.doc, cached |-> st.cached]
    ELSE LET r == is_processed(st, all[k], f)
             st2 == [doc |-> r.doc, cached |-> r.cached]
         IN  IF r.raised
             THEN [raised |-> TRUE, images |-> <<>>, doc |-> r.doc,
                   cached |-> r.cached]
             ELSE pick_loop_nobreak(all, k + 1,
                      IF r.result THEN new ELSE Append(new, all[k]),
                      st2, size, f)

\* the loop of pick_new_images from position k of all_images on
RECURSIVE pick_loop(_, _, _, _, _, _)
pick_loop(all, k, new, st, size, f) ==
    IF k > Len(all)
    THEN [raised |-> FALSE, images |-> new, doc |-> st.doc, cached |-> st.cached]
    ELSE LET r == is_processed(st, all[k], f)
             st2 == [doc |-> r.doc, cached |-> r.cached]
             new2 == IF r.result THEN new ELSE Append(new, all[k])
         IN  IF r.raised
             THEN [raised |-> TRUE, images |-> <<>>, doc |-> r.doc,
                   cached |-> r.cached]
             ELSE IF Len(new2) >= size
             THEN [raised |-> FALSE, images |-> new2, doc |-> r.doc,
                   cached |-> r.cached]
             ELSE pick_loop(all, k + 1, new2, st2, size, f)

\* pick_new_images(state_client) over the sorted listing all
pick_new_images(all, st, size, f) == pick_loop(all, 1, <<>>, st, size, f)

\* ------------------------------------------------------ git_publisher.py
\* A tree holds the files below blog/: the downloaded images
\* (assets/images/incoming), the copied images (assets/images/<slug>) and
\* the post of each day (_posts/<date>-<slug>.md, <<>> when there is none).
\* A post is identified by the images it shows; file names are taken to be
\* distinct per image.  secrets are the secret files in the repository
\* directory that no .gitignore hides from git.
EmptyTree ==
    [incoming |-> {}, media |-> {}, posts |-> [t \in Days |-> <<>>],
     secrets |-> {}]

\* the images that a post of the tree references
PostedIn(tree) == UNION {Range(tree.posts[t]) : t \in Days}

\* the git commands of publish that can fail ("status2": the status call
\* inside commit)
GitFaults == {"none", "version", "rev-parse", "status", "add", "status2",
              "commit", "push"}

ChecksRun == {"version", "rev-parse", "status"}

\* has_changes: git status --porcelain prints something
has_changes(w, h) == w # h

\* mutant: publish does not look for pending changes
publish_always(w, h, r, f) ==
    IF f = "version"
    THEN [raised |-> TRUE, failed |-> "version", head |-> h, remote |-> r,
          calls |-> {"version"}]
    ELSE IF f = "rev-parse"
    THEN [raised |-> TRUE, failed |-> "rev-parse", head |-> h, remote |-> r,
          calls |-> {"version", "rev-parse"}]
    ELSE IF f = "add"
    THEN [raised |-> TRUE, failed |-> "add", head |-> h, remote |-> r,
          calls |-> {"version", "rev-parse", "add"}]
    ELSE IF f = "commit"
    THEN [raised |-> TRUE, failed |-> "commit", head |-> h, remote |-> r,
          calls |-> {"version", "rev-parse", "add", "commit"}]
    ELSE IF f = "push"
    THEN [raised |-> TRUE, failed |-> "push", head |-> w, remote |-> r,
          calls |-> {"version", "rev-parse", "add", "commit", "push"}]
    ELSE [raised |-> FALSE, failed |-> "none", head |-> w, remote |-> w,
          calls |-> {"version", "rev-parse", "add", "commit", "push"}]

\* publish(commit_message): ensure_git_available, ensure_repo, has_changes,
\* add_all, commit, push; f is the git command that fails (if reached)
publish(w, h, r, f) ==
    IF f = "version"
    THEN [raised |-> TRUE, failed |-> "version", head |-> h, remote |-> r,
          calls |-> {"version"}]
    ELSE IF f = "rev-parse"
    THEN [raised |-> TRUE, failed |-> "rev-parse", head |-> h, remote |-> r,
          calls |-> {"version", "rev-parse"}]
    ELSE IF f = "status"
    THEN [raised |-> TRUE, failed |-> "status", head |-> h, remote |-> r,
          calls |-> ChecksRun]
    ELSE IF ~has_changes(w, h)
    THEN [raised |-> FALSE, failed |-> "none", head |-> h, remote |-> r,
          calls |-> ChecksRun]
    ELSE IF f = "add"
    THEN [raised |-> TRUE, failed |-> "add", head |-> h, remote |-> r,
          calls |-> ChecksRun \cup {"add"}]
    ELSE IF f = "status2"
    THEN [raised |-> TRUE, failed |-> "status", head |-> h, remote |-> r,
          calls |-> ChecksRun \cup {"add"}]
    ELSE IF f = "commit"
    THEN [raised |-> TRUE, failed |-> "commit", head |-> h, remote |-> r,
          calls |-> ChecksRun \cup {"add", "commit"}]
    ELSE IF f = "push"
    THEN [raised |-> TRUE, failed |-> "push", head |-> w, remote |-> r,
          calls |-> ChecksRun \cup {"add", "commit", "push"}]
    ELSE [raised |-> FALSE, failed |-> "none", head |-> w, remote |-> w,
          calls |-> ChecksRun \cup {"add", "commit", "push"}]

\* ------------------------------------------------------------ pipeline.py
\* secrets = ["client_secret.json", "token.json", ".env"]
secrets == <<"client_secret.json", "token.json", ".env">>

\* the slug of the post: _make_slug of the title the mock AI writes
MockSlug == "mock-title"

NoBuild == [built |-> FALSE, post_path |-> 0, post_slug |-> "None"]

NoResult == [ok |-> FALSE, message |-> "running", processed_count |-> 0,
             post_path |-> "None", post_slug |-> "None", errors |-> <<>>]

\* _git_is_tracked(s): git ls-files --error-unmatch s exits with 0; listed
\* are the files for which it does
_git_is_tracked(s, listed) == s \in listed

\* mutant: only the first secret is looked at
_preflight_first_only(listed) ==
    IF _git_is_tracked(secrets[1], listed) THEN 1 ELSE 0

\* _preflight_security_checks: the position in secrets of the file that
\* raises the security block, 0 when it returns
_preflight_security_checks(listed) ==
    LET hits == {k \in 1..Len(secrets) : _git_is_tracked(secrets[k], listed)}
    IN  IF hits = {} THEN 0
        ELSE CHOOSE k \in hits : \A j \in hits : k <= j

\* str(e) of the RuntimeError of the preflight
BlockMessage(k) ==
    CASE k = 1 -> "SECURITY BLOCK: 'client_secret.json' is tracked by git."
      [] k = 2 -> "SECURITY BLOCK: 'token.json' is tracked by git."
      [] OTHER -> "SECURITY BLOCK: '.env' is tracked by git."

PathOf(br) == IF br.built THEN ToString(br.post_path) ELSE "None"

\* mutant: the error of the failed step is not appended to errors
failed_result_noerrors(br, err) ==
    [ok |-> FALSE, message |-> "Pipeline failed.", processed_count |-> 0,
     post_path |-> PathOf(br), post_slug |-> br.post_slug, errors |-> <<>>]

\* the PipelineResult of the except branch of run
failed_result(br, err) ==
    [ok |-> FALSE, message |-> "Pipeline failed.", processed_count |-> 0,
     post_path |-> PathOf(br), post_slug |-> br.post_slug, errors |-> <<err>>]

\* mutant: the result of the security block has no errors list
blocked_result_noerrors(k) ==
    [ok |-> FALSE, message |-> BlockMessage(k), processed_count |-> 0,
     post_path |-> "None", post_slug |-> "None", errors |-> <<>>]

\* the PipelineResult when the preflight raised for secrets[k]
blocked_result(k) ==
    [ok |-> FALSE, message |-> BlockMessage(k), processed_count |-> 0,
     post_path |-> "None", post_slug |-> "None",
     errors |-> <<BlockMessage(k)>>]

\* the PipelineResult after _update_state
success_result(br, marked) ==
    [ok |-> TRUE, message |-> "Pipeline completed successfully.",
     processed_count |-> marked, post_path |-> PathOf(br),
     post_slug |-> br.post_slug, errors |-> <<>>]

no_new_result ==
    [ok |-> TRUE, message |-> "No new images.", processed_count |-> 0,
     post_path |-> "None", post_slug |-> "None", errors |-> <<>>]

\* mutant: the state is updated before the publish
next_step_commit_first(step) ==
    CASE step = "preflight" -> "select"
      [] step = "download" -> "generate"
      [] step = "generate" -> "build"
      [] step = "build" -> "commit"
      [] OTHER -> "idle"

\* mutant: the build follows the download, the generation is skipped
next_step_skip_generate(step) ==
    CASE step = "preflight" -> "select"
      [] step = "download" -> "build"
      [] step = "build" -> "publish"
      [] step = "publish" -> "commit"
      [] OTHER -> "idle"

\* the order of the steps in the try block of run
next_step(step) ==
    CASE step = "preflight" -> "select"
      [] step = "download" -> "generate"
      [] step = "generate" -> "build"
      [] step = "build" -> "publish"
      [] step = "publish" -> "commit"
      [] OTHER -> "idle"

\* the except branch of run: the run ends with the failed result; err is
\* the summary of the exception (for publish, the git command that failed)
Fail(step, err, br) ==
    /\ result' = failed_result(br, err)
    /\ failed_at' = step
    /\ pc' = "done"

\* _build_drive_service: the OAuth flow may write token.json into the
\* working directory (saved: it does, and no .gitignore covers the file)
_build_drive_service(w, saved) ==
    IF saved THEN [w EXCEPT !.secrets = @ \cup {"token.json"}] ELSE w

\* run_pipeline: load_config, Pipeline(cfg), run up to the preflight.
\* indexed are the secret files in the index of git; when git ls-files
\* cannot be run (git unavailable, not a repository) _git_is_tracked
\* catches the exception for every file.
Preflight ==
    /\ pc = "idle"
    /\ state_file_id' = FALSE
    /\ mock_mode' \in BOOLEAN
    /\ calls' = {"preflight"}
    /\ steps' = <<"preflight">>
    /\ doc_at_start' = state_json
    /\ \E saved \in BOOLEAN : wt' = _build_drive_service(wt, saved)
    /\ \E indexed \in SUBSET Range(secrets), git_fails \in BOOLEAN :
          LET listed == IF git_fails THEN {} ELSE indexed
              k == _preflight_security_checks(listed)
          IN  /\ head.secrets \subseteq indexed
              /\ tracked' = listed
              /\ ls_files_failed' = git_fails
              /\ IF k # 0
                 THEN /\ result' = blocked_result(k)
                      /\ pc' = "done"
                 ELSE /\ result' = NoResult
                      /\ pc' = next_step("preflight")
    /\ UNCHANGED <<mainVars, cfgVars, blogVars, raceVars, now, state_json, last_call, driveVars, pickVars,
                   head, remote, landed, git_calls, downloaded, build_result,
                   mark_idx, ok_count, failed_at, mark_log>>

\* mutant: an empty selection does not end the run
nothing_to_do_never(images) == FALSE

\* `if not new_images: return []` and `if not downloaded: return ...`
nothing_to_do(images) == images = <<>>

\* _pick_and_download: pick_new_images, then download_images, which writes
\* the first k images to incoming/ and raises unless that is all of them
PickAndDownload ==
    /\ pc = "select"
    /\ ls_files_failed' = FALSE
    /\ \E fs \in Pages(folder), f \in {"none", "list", "find", "create", "get"} :
          IF f = "list"
          THEN /\ Fail("select", "select", build_result)
               /\ calls' = calls \cup {"pick_new_images"}
               /\ steps' = Append(steps, "select")
               /\ UNCHANGED <<state_json, state_file_id, wt, downloaded>>
          ELSE LET all == _list_images_in_folder(fs, modified_time)
                   r == pick_new_images(all, Client, batch_size, f)
               IN  /\ state_json' = r.doc
                   /\ state_file_id' = r.cached
                   /\ IF r.raised
                      THEN /\ Fail("select", "select", build_result)
                           /\ calls' = calls \cup {"pick_new_images", "is_processed"}
                           /\ steps' = Append(steps, "select")
                           /\ UNCHANGED <<wt, downloaded>>
                      ELSE IF nothing_to_do(r.images)
                      THEN /\ result' = no_new_result
                           /\ pc' = "done"
                           /\ calls' = calls \cup {"pick_new_images"} \cup
                                  (IF all = <<>> THEN {} ELSE {"is_processed"})
                           /\ steps' = Append(steps, "select")
                           /\ UNCHANGED <<failed_at, wt, downloaded>>
                      ELSE \E k \in 0..Len(r.images) :
                           /\ wt' = [wt EXCEPT !.incoming =
                                        @ \cup Range(SubSeq(r.images, 1, k))]
                           /\ calls' = calls \cup {"pick_new_images",
                                           "is_processed", "download_images"}
                           /\ steps' = steps \o <<"select", "download">>
                           /\ IF k = Len(r.images)
                              THEN /\ downloaded' = r.images
                                   /\ pc' = next_step("download")
                                   /\ UNCHANGED <<result, failed_at>>
                              ELSE /\ Fail("download", "download", build_result)
                                   /\ UNCHANGED downloaded
    /\ UNCHANGED <<mainVars, cfgVars, blogVars, raceVars, now, last_call, driveVars, pickVars, tracked, head, remote,
                   landed, git_calls, mock_mode, build_result, mark_idx,
                   ok_count, doc_at_start, mark_log>>

\* _ai_generate: the mock captions and post, or the RuntimeError of real mode
Generate ==
    /\ pc = "generate"
    /\ steps' = Append(steps, "generate")
    /\ IF mock_mode
       THEN /\ calls' = calls \cup {"generate_photo_captions",
                                    "generate_post_markdown"}
            /\ pc' = next_step("generate")
            /\ UNCHANGED <<result, failed_at>>
       ELSE /\ calls' = calls \cup {"generate_photo_captions"}
            /\ Fail("generate", "generate", build_result)
    /\ UNCHANGED <<mainVars, cfgVars, blogVars, raceVars, now, storeVars, driveVars, pickVars, tracked, gitVars,
                   mock_mode, downloaded, build_result, mark_idx, ok_count,
                   doc_at_start, mark_log, ls_files_failed>>

\* _build_content: build copies k images to the slug folder (none or all of
\* them) and, if that is all of them, writes the post of the day
Build ==
    /\ pc = "build"
    /\ \E k \in {0, Len(downloaded)}, written \in BOOLEAN :
          /\ written => k = Len(downloaded)
          /\ wt' = [wt EXCEPT
                      !.media = @ \cup Range(SubSeq(downloaded, 1, k)),
                      !.posts[now] = IF written THEN downloaded ELSE @]
          /\ IF written
             THEN /\ build_result' = [built |-> TRUE, post_path |-> now,
                                      post_slug |-> MockSlug]
                  /\ pc' = next_step("build")
                  /\ mark_idx' = 1
                  /\ UNCHANGED <<result, failed_at>>
             ELSE /\ Fail("build", "build", build_result)
                  /\ UNCHANGED <<build_result, mark_idx>>
    /\ calls' = calls \cup {"build"}
    /\ steps' = Append(steps, "build")
    /\ UNCHANGED <<mainVars, cfgVars, blogVars, raceVars, now, storeVars, driveVars, pickVars, tracked, head, remote,
                   landed, git_calls, mock_mode, downloaded, ok_count,
                   doc_at_start, mark_log, ls_files_failed>>

\* _git_publish
GitPublish ==
    /\ pc = "publish"
    /\ steps' = Append(steps, "publish")
    /\ \E f \in GitFaults :
          LET p == publish(wt, head, remote, f)
          IN  /\ head' = p.head
              /\ remote' = p.remote
              /\ landed' = landed \cup PostedIn(p.remote)
              /\ git_calls' = p.calls
              /\ IF p.raised
                 THEN /\ Fail("publish", p.failed, build_result)
                      /\ calls' = calls \cup {"publish"}
                 ELSE /\ pc' = next_step("publish")
                      /\ calls' = calls \cup {"publish", "publish_returned"}
                      /\ UNCHANGED <<result, failed_at>>
    /\ UNCHANGED <<mainVars, cfgVars, blogVars, raceVars, now, storeVars, driveVars, pickVars, tracked, wt, mock_mode,
                   downloaded, build_result, mark_idx, ok_count, doc_at_start,
                   mark_log, ls_files_failed>>

\* mutant: ok_count is increased although mark_processed raised
count_marked_always(raised, count) == count + 1

\* _update_state: ok_count after the try/except around mark_processed
count_marked(raised, count) == IF raised THEN count ELSE count + 1

\* _update_state: one iteration of the loop; after the last one run returns
UpdateState ==
    /\ pc = "commit"
    /\ \E f \in StateFaults :
          LET r == mark_processed(Client, downloaded[mark_idx],
                                  build_result.post_slug, now, f)
              marked == count_marked(r.raised, ok_count)
          IN  /\ state_json' = r.doc
              /\ mark_log' = Append(mark_log, [file_id |-> downloaded[mark_idx],
                                               error |-> r.raised])
              /\ state_file_id' = r.cached
              /\ ok_count' = marked
              /\ IF mark_idx = Len(downloaded)
                 THEN /\ result' = success_result(build_result, marked)
                      /\ pc' = "done"
                      /\ UNCHANGED mark_idx
                 ELSE /\ mark_idx' = mark_idx + 1
                      /\ UNCHANGED <<result, pc>>
    /\ calls' = calls \cup {"mark_processed"}
    /\ steps' = IF mark_idx = 1 THEN Append(steps, "commit") ELSE steps
    /\ UNCHANGED <<mainVars, cfgVars, blogVars, raceVars, now, last_call, driveVars, pickVars, tracked, gitVars,
                   mock_mode, downloaded, build_result, failed_at, doc_at_start,
                   ls_files_failed>>

\* the process ends (main.py has printed the result): the Pipeline object,
\* its StateClient and the result are gone
Exit ==
    /\ pc = "done"
    /\ pc' = "idle"
    /\ state_file_id' = FALSE
    /\ mock_mode' = TRUE
    /\ downloaded' = <<>>
    /\ build_result' = NoBuild
    /\ mark_idx' = 0 /\ ok_count' = 0
    /\ result' = NoResult
    /\ calls' = {}
    /\ failed_at' = "none"
    /\ doc_at_start' = NoState
    /\ steps' = <<>>
    /\ mark_log' = <<>>
    /\ ls_files_failed' = FALSE
    /\ git_calls' = {}
    /\ tracked' = {}
    /\ UNCHANGED <<mainVars, cfgVars, blogVars, raceVars, now, state_json, last_call, driveVars, pickVars, wt, head,
                   remote, landed>>

\* the next image is uploaded to the input folder; uploads happen one
\* after the other, image i at instant i
Upload ==
    /\ pc = "idle"
    /\ Cardinality(folder) < NumImages
    /\ LET i == Cardinality(folder) + 1
       IN  /\ folder' = folder \cup {i}
           /\ created_time' = [created_time EXCEPT ![i] = i]
           /\ modified_time' = [modified_time EXCEPT ![i] = i]
    /\ UNCHANGED <<mainVars, cfgVars, blogVars, raceVars, now, storeVars, pickVars, pc, tracked, gitVars, runVars>>

\* a day passes between two runs
NextDay ==
    /\ pc = "idle"
    /\ now < MaxNow
    /\ now' = now + 1
    /\ UNCHANGED <<mainVars, cfgVars, blogVars, raceVars, storeVars, driveVars, pickVars, pc, tracked, gitVars, runVars>>

\* ---------------------------------------------------------------- blog.py
\* What a call of fn does: it returns val, or raises the exception val.
Outcomes == [ok : BOOLEAN, val : 1..2]

\* retry_on = (Exception,): every exception fn raises is caught
AllErrors == 1..2

\* jitter: float = 0.25, in hundredths
JitterPct == 25

\* random.uniform(-jitter, jitter): the ends and the middle of the range,
\* in hundredths
Jitters == {-JitterPct, 0, JitterPct}

\* the floor of time.sleep(max(0.1, delay)), in hundredths of a second
MinSleep == 10

RECURSIVE Pow2(_)
Pow2(k) == IF k = 0 THEN 1 ELSE 2 * Pow2(k - 1)

Min(a, b) == IF a <= b THEN a ELSE b
Max(a, b) == IF a >= b THEN a ELSE b

\* delay = min(max_delay, base_delay * (2 ** (attempt - 1))), in seconds
backoff(attempt, base, cap) == Min(cap, base * Pow2(attempt - 1))

\* delay * (1.0 + u), then max(0.1, delay): what time.sleep gets, in
\* hundredths of a second (u in hundredths)
sleep_time(d, u) == Max(MinSleep, d * (100 + u))

NoSleep == [attempt |-> 0, delay |-> 0, slept |-> 0]

RetryIdle == [status |-> "idle", attempt |-> 0, last_err |-> 0, value |-> 0,
              sleeps |-> 0]

RetryStart == [RetryIdle EXCEPT !.status = "running"]

\* mutant: last_err keeps the first exception
retry_iteration_first_err(st, n, outs, retry_on) ==
    LET attempt == st.attempt + 1
        o == outs[attempt]
    IN  IF o.ok
        THEN [st EXCEPT !.attempt = attempt, !.status = "returned",
                        !.value = o.val]
        ELSE IF o.val \notin retry_on
        THEN [st EXCEPT !.attempt = attempt, !.status = "raised",
                        !.value = o.val]
        ELSE IF attempt = n
        THEN [st EXCEPT !.attempt = attempt,
                        !.last_err = IF @ = 0 THEN o.val ELSE @,
                        !.status = "raised",
                        !.value = IF st.last_err = 0 THEN o.val ELSE st.last_err]
        ELSE [st EXCEPT !.attempt = attempt,
                        !.last_err = IF @ = 0 THEN o.val ELSE @,
                        !.sleeps = @ + 1]

\* mutant: the sleep comes before the test for the last attempt
retry_iteration_sleep_last(st, n, outs, retry_on) ==
    LET attempt == st.attempt + 1
        o == outs[attempt]
    IN  IF o.ok
        THEN [st EXCEPT !.attempt = attempt, !.status = "returned",
                        !.value = o.val]
        ELSE IF o.val \notin retry_on
        THEN [st EXCEPT !.attempt = attempt, !.status = "raised",
                        !.value = o.val]
        ELSE IF attempt = n
        THEN [st EXCEPT !.attempt = attempt, !.last_err = o.val,
                        !.status = "raised", !.value = o.val,
                        !.sleeps = @ + 1]
        ELSE [st EXCEPT !.attempt = attempt, !.last_err = o.val,
                        !.sleeps = @ + 1]

\* retry: one pass through the body of `for attempt in range(1, tries + 1)`,
\* with the `raise last_err` that follows the break
retry_iteration(st, n, outs, retry_on) ==
    LET attempt == st.attempt + 1
        o == outs[attempt]
    IN  IF o.ok
        THEN [st EXCEPT !.attempt = attempt, !.status = "returned",
                        !.value = o.val]
        ELSE IF o.val \notin retry_on
        THEN [st EXCEPT !.attempt = attempt, !.status = "raised",
                        !.value = o.val]
        ELSE IF attempt = n
        THEN [st EXCEPT !.attempt = attempt, !.last_err = o.val,
                        !.status = "raised", !.value = o.val]
        ELSE [st EXCEPT !.attempt = attempt, !.last_err = o.val,
                        !.sleeps = @ + 1]

\* fn is called once more
RetryAttempt ==
    /\ retry_st.status = "running"
    /\ retry_st' = retry_iteration(retry_st, tries, outcomes, AllErrors)
    /\ IF retry_st'.sleeps > retry_st.sleeps
       THEN \E u \in Jitters :
               LET d == backoff(retry_st'.attempt, base_delay, max_delay)
               IN  last_sleep' = [attempt |-> retry_st'.attempt, delay |-> d,
                                  slept |-> sleep_time(d, u)]
       ELSE UNCHANGED last_sleep
    /\ UNCHANGED <<mainVars, cfgVars, raceVars, now, storeVars, driveVars, pickVars, pc, tracked,
                   gitVars,
                   runVars, tries, outcomes, base_delay, max_delay,
                   captionVars>>

\* ------------------------------------------ ai_make_title_and_captions
\* A text is a sequence of characters; these are the texts the service
\* answers with (all of them strings, as the response schema asks for).
CaptionTexts == {<<>>, <<"x">>, <<" ", "x">>, <<"x", " ">>}

\* normalize_caption cuts a text that is longer
CaptionLimit == 500

\* "오늘의 사진 기록", the title when the service gave none
DefaultTitle == <<"d">>

\* "설명을 생성하지 못했습니다.", the caption when the generation failed
FailedCaption == <<"f">>

\* What the response of the service parsed to (extract_json_object):
\*   kind "exhausted"  - retry raised: every call of the service failed
\*   kind "unparsable" - no JSON object was found in the text (None)
\*   kind "empty"  - the object {}
\*   kind "object" - an object with at least one key; captions_type says
\*                   what data.get("captions") is
DataKinds == {"exhausted", "unparsable", "empty", "object"}
CaptionsTypes == {"absent", "string", "list"}

NoData == [kind |-> "unparsable", title |-> <<>>, captions_type |-> "absent",
           captions |-> <<>>]

NoContent == [returned |-> FALSE, raised |-> FALSE, title |-> <<>>,
              captions |-> <<>>]

\* [x] * k
RECURSIVE Repeat(_, _)
Repeat(x, k) == IF k <= 0 THEN <<>> ELSE Append(Repeat(x, k - 1), x)

\* str.strip(): leading and trailing white space is removed
RECURSIVE lstrip(_)
lstrip(t) == IF t # <<>> /\ t[1] = " " THEN lstrip(Tail(t)) ELSE t

RECURSIVE rstrip(_)
rstrip(t) ==
    IF t # <<>> /\ t[Len(t)] = " " THEN rstrip(SubSeq(t, 1, Len(t) - 1)) ELSE t

strip(t) == rstrip(lstrip(t))

\* normalize_caption(text)
normalize_caption(text) ==
    LET t == strip(text)
    IN  IF Len(t) > CaptionLimit
        THEN Append(rstrip(SubSeq(t, 1, CaptionLimit)), "...")
        ELSE t

\* mutant: the list of captions is cut to n but not padded
coerce_captions_nopad(caps, n) ==
    LET cut == SubSeq(caps, 1, IF Len(caps) < n THEN Len(caps) ELSE n)
    IN  [k \in 1..Len(cut) |-> normalize_caption(cut[k])]

\* the length correction of captions: pad with "", cut to n, normalize
coerce_captions(caps, n) ==
    LET padded == IF Len(caps) < n
                  THEN caps \o Repeat(<<>>, n - Len(caps))
                  ELSE caps
        cut == SubSeq(padded, 1, n)
    IN  [k \in 1..Len(cut) |-> normalize_caption(cut[k])]

\* the try block of ai_make_title_and_captions: retry, extract_json_object,
\* `if not data: raise ValueError`, then title and captions
try_block(n, d) ==
    IF d.kind # "object"
    THEN [raised |-> TRUE, title |-> <<>>, captions |-> <<>>]
    ELSE [raised |-> FALSE,
          title |-> strip(IF d.title = <<>> THEN DefaultTitle ELSE d.title),
          captions |-> coerce_captions(
                           IF d.captions_type = "list" THEN d.captions
                           ELSE <<>>, n)]

\* mutant: the exception of the try block is not caught
ai_make_title_and_captions_noexcept(n, d) ==
    LET b == try_block(n, d)
    IN  [returned |-> ~b.raised, raised |-> b.raised, title |-> b.title,
         captions |-> b.captions]

\* ai_make_title_and_captions(images) for n images when the response
\* parsed to d: the try block, and the placeholders of `except Exception`
ai_make_title_and_captions(n, d) ==
    LET b == try_block(n, d)
    IN  IF b.raised
        THEN [returned |-> TRUE, raised |-> FALSE, title |-> DefaultTitle,
              captions |-> Repeat(FailedCaption, n)]
        ELSE [returned |-> TRUE, raised |-> FALSE, title |-> b.title,
              captions |-> b.captions]

\* the generation is called for the batch
CallGenerate ==
    /\ ~ai_result.returned /\ ~ai_result.raised
    /\ ai_result' = ai_make_title_and_captions(n_images, data)
    /\ UNCHANGED <<mainVars, cfgVars, raceVars, now, storeVars, driveVars, pickVars, pc, tracked,
                   gitVars,
                   runVars, retryVars, n_images, data>>

InitCaptionsIdle ==
    /\ n_images = 0
    /\ data = NoData
    /\ ai_result = NoContent

\* ------------------------------------------------------------ the clock
Tick ==
    /\ now < MaxNow
    /\ now' = now + 1
    /\ UNCHANGED <<mainVars, cfgVars, blogVars, raceVars, storeVars, driveVars, pickVars, pc, tracked, gitVars, runVars>>

\* ------------------------------------- a single runner using StateClient
CallIsProcessed ==
    \E id \in Images, f \in StateFaults :
        LET r == is_processed(Client, id, f)
        IN  /\ state_json' = r.doc
            /\ state_file_id' = r.cached
            /\ last_call' = [op |-> "is_processed", id |-> id, slug |-> "",
                             created |-> r.created,
                             raised |-> r.raised, uploaded |-> FALSE,
                             result |-> r.result, state |-> NoState]
            /\ UNCHANGED <<mainVars, cfgVars, blogVars, raceVars, now, driveVars, pickVars, pc, tracked, gitVars, runVars>>

CallMarkProcessed ==
    \E id \in Images, slug \in Slugs, f \in StateFaults :
        LET r == mark_processed(Client, id, slug, now, f)
        IN  /\ state_json' = r.doc
            /\ state_file_id' = r.cached
            /\ last_call' = [op |-> "mark_processed", id |-> id,
                             created |-> r.created,
                             slug |-> slug, raised |-> r.raised,
                             uploaded |-> r.uploaded, result |-> FALSE,
                             state |-> NoState]
            /\ UNCHANGED <<mainVars, cfgVars, blogVars, raceVars, now, driveVars, pickVars, pc, tracked, gitVars, runVars>>

CallDownloadState ==
    \E f \in StateFaults :
        LET r == download_state(Client, f)
        IN  /\ state_json' = r.doc
            /\ state_file_id' = r.cached
            /\ last_call' = [op |-> "download_state", id |-> 0, slug |-> "",
                             created |-> r.created,
                             raised |-> r.raised, uploaded |-> FALSE,
                             result |-> FALSE, state |-> r.state]
            /\ UNCHANGED <<mainVars, cfgVars, blogVars, raceVars, now, driveVars, pickVars, pc, tracked, gitVars, runVars>>

\* a new StateClient is created (create_state_client): nothing is cached
NewStateClient ==
    /\ state_file_id
    /\ state_file_id' = FALSE
    /\ UNCHANGED <<mainVars, cfgVars, blogVars, raceVars, now, state_json, last_call, driveVars, pickVars, pc, tracked,
                   gitVars, runVars>>

InitClock == now = 0

InitStore ==
    /\ state_json = NoState
    /\ state_file_id = FALSE
    /\ last_call = NoCall

InitDriveEmpty ==
    /\ folder = {}
    /\ created_time = [i \in Images |-> 0]
    /\ modified_time = [i \in Images |-> 0]

InitPickIdle ==
    /\ batch_size = MaxBatch
    /\ files = <<>>
    /\ all_images = <<>>
    /\ new_images = <<>>
    /\ pc = "idle"

InitGit ==
    /\ tracked = {}
    /\ wt = EmptyTree
    /\ head = EmptyTree
    /\ remote = EmptyTree
    /\ landed = {}
    /\ git_calls = {}

InitRetryIdle ==
    /\ base_delay = 1
    /\ max_delay = 1
    /\ last_sleep = NoSleep
    /\ tries = 0
    /\ outcomes = <<>>
    /\ retry_st = RetryIdle

\* ------------------------------------------------------------ blog.py main
\* state.json: absent, or a file of some kind holding the ids written last
\*   kind "ok"       - {"processed_ids": [...]}
\*   kind "not_json" - json.load raises (cut off, garbage)
\*   kind "not_dict" - JSON, but not an object
\*   kind "no_list"  - an object without a list under "processed_ids"
FileKinds == {"ok", "not_json", "not_dict", "no_list"}

NoFile == [exists |-> FALSE, kind |-> "ok", ids |-> <<>>]

\* load_state: the processed ids main goes on with; raised says whether
\* the caller gets an exception
load_state(sf) ==
    IF ~sf.exists THEN [raised |-> FALSE, processed_ids |-> <<>>]
    ELSE IF sf.kind # "ok" THEN [raised |-> FALSE, processed_ids |-> <<>>]
    ELSE [raised |-> FALSE, processed_ids |-> sf.ids]

\* save_state(processed_ids)
save_state(ids) == [exists |-> TRUE, kind |-> "ok", ids |-> ids]

\* list_all_images_in_folder: every page, createdTime asc
list_all_images_in_folder == [k \in 1..NumListed |-> k]

\* new_files = [f for f in all_files if f["id"] not in processed_ids]
new_files_of(all, processed) ==
    SelectSeq(all, LAMBDA i : i \notin Range(processed))

\* batch = new_files[idx: idx + MAX_PHOTOS_PER_POST]
batch_at(nf, idx) ==
    SubSeq(nf, idx + 1, Min(Len(nf), idx + MAX_PHOTOS_PER_POST))

\* mutant: the ids of the whole batch are recorded
process_batch_record_all(batch, ok, processed) ==
    LET images_for_ai == SelectSeq(batch, LAMBDA i : i \in ok)
    IN  [post |-> images_for_ai, processed_ids |-> processed \o batch]

\* one pass of the batch loop: the downloads (those of ok succeed), the
\* post of the downloaded images if there is one, processed_ids.extend
process_batch(batch, ok, processed) ==
    LET images_for_ai == SelectSeq(batch, LAMBDA i : i \in ok)
    IN  [post |-> images_for_ai, processed_ids |-> processed \o images_for_ai]

\* git_commit_push: how it ended (it never raises); f is the git command
\* that fails, clean says that git commit finds nothing to commit
GitSteps == {"none", "add", "commit", "push"}

git_commit_push(f, clean) ==
    IF f = "add" THEN "add_failed"
    ELSE IF clean THEN "nothing"
    ELSE IF f = "commit" THEN "commit_failed"
    ELSE IF f = "push" THEN "push_failed"
    ELSE "pushed"

\* main has not started: posts are the posts in OUT_DIR, at_start the
\* state.json the run found
BlogStart == [pc |-> "start", processed_ids |-> <<>>, new_files |-> <<>>,
              idx |-> 0, batch |-> <<>>, failed |-> {}, last_post |-> <<>>,
              posts |-> {}, git |-> "none", at_start |-> NoFile,
              loaded |-> FALSE, load_raised |-> FALSE, runs |-> 0]

InitMainIdle ==
    /\ state_file = NoFile
    /\ blog = BlogStart

\* main up to the filter of the new files
MainLoad ==
    /\ blog.pc = "start"
    /\ blog.runs < MaxRuns
    /\ LET ld == load_state(state_file)
           nf == new_files_of(list_all_images_in_folder, ld.processed_ids)
       IN  blog' = [blog EXCEPT !.pc = IF nf = <<>> THEN "index" ELSE "batch",
                                !.processed_ids = ld.processed_ids,
                                !.new_files = nf,
                                !.at_start = state_file,
                                !.loaded = TRUE,
                                !.load_raised = ld.raised,
                                !.runs = @ + 1]
    /\ UNCHANGED <<state_file, cfgVars, blogVars, raceVars, now, storeVars,
                   driveVars, pickVars, pc, tracked, gitVars, runVars>>

\* main: one batch, with any of its downloads failing
MainBatch ==
    /\ blog.pc = "batch"
    /\ LET batch == batch_at(blog.new_files, blog.idx)
       IN  \E ok \in SUBSET Range(batch) :
              LET r == process_batch(batch, ok, blog.processed_ids)
              IN  blog' = [blog EXCEPT
                     !.batch = batch,
                     !.failed = Range(batch) \ ok,
                     !.last_post = r.post,
                     !.posts = IF r.post = <<>> THEN @ ELSE @ \cup {r.post},
                     !.processed_ids = r.processed_ids,
                     !.idx = @ + MAX_PHOTOS_PER_POST,
                     !.pc = IF blog.idx + MAX_PHOTOS_PER_POST
                                   >= Len(blog.new_files)
                            THEN "save" ELSE "batch"]
    /\ UNCHANGED <<state_file, cfgVars, blogVars, raceVars, now, storeVars,
                   driveVars, pickVars, pc, tracked, gitVars, runVars>>

\* main: save_state(processed_ids) after the last batch
MainSave ==
    /\ blog.pc = "save"
    /\ state_file' = save_state(blog.processed_ids)
    /\ blog' = [blog EXCEPT !.pc = "index"]
    /\ UNCHANGED <<cfgVars, blogVars, raceVars, now, storeVars, driveVars,
                   pickVars, pc, tracked, gitVars, runVars>>

\* main: generate_index_html and git_commit_push
MainPush ==
    /\ blog.pc = "index"
    /\ \E f \in GitSteps, clean \in BOOLEAN :
          /\ clean => state_file = blog.at_start
          /\ blog' = [blog EXCEPT !.pc = "done",
                                  !.git = git_commit_push(f, clean)]
    /\ UNCHANGED <<state_file, cfgVars, blogVars, raceVars, now, storeVars,
                   driveVars, pickVars, pc, tracked, gitVars, runVars>>

\* the script ends; it is started again later
MainExit ==
    /\ blog.pc = "done"
    /\ blog' = [BlogStart EXCEPT !.posts = blog.posts, !.runs = blog.runs]
    /\ UNCHANGED <<state_file, cfgVars, blogVars, raceVars, now, storeVars,
                   driveVars, pickVars, pc, tracked, gitVars, runVars>>

\* between two runs state.json is damaged (a write that was cut off, an
\* edit by hand)
Damage ==
    /\ blog.pc = "start"
    /\ state_file.exists /\ state_file.kind = "ok"
    /\ \E k \in FileKinds \ {"ok"} :
          state_file' = [state_file EXCEPT !.kind = k]
    /\ UNCHANGED <<blog, cfgVars, blogVars, raceVars, now, storeVars,
                   driveVars, pickVars, pc, tracked, gitVars, runVars>>

\* ------------------------------------------------------- config_loader.py
\* What yaml.safe_load can give for pipeline.batch_size: the key is absent,
\* or holds an integer, a boolean (val 1 for true), a float, a string or
\* null.
YamlTypes == {"absent", "int", "bool", "float", "str", "null"}

YamlValues ==
    {[type |-> "int", val |-> v] : v \in (MinBatch - 2)..(MaxBatch + 2)}
    \cup {[type |-> "bool", val |-> v] : v \in {0, 1}}
    \cup {[type |-> ty, val |-> v] :
             ty \in {"float", "str"}, v \in {MinBatch + 1}}
    \cup {[type |-> ty, val |-> 0] : ty \in {"absent", "null"}}

\* cfg["pipeline"].setdefault("batch_size", 4)
setdefault_batch_size(y) ==
    IF y.type = "absent" THEN [type |-> "int", val |-> MaxBatch] ELSE y

\* isinstance(v, int): bool is a subclass of int
isinstance_int(y) == y.type \in {"int", "bool"}

NotLoaded == [status |-> "none", batch_size |-> 0]

\* mutant: the range of batch_size is not checked
load_config_norange(y) ==
    LET v == setdefault_batch_size(y)
    IN  IF ~isinstance_int(v)
        THEN [status |-> "raised", batch_size |-> 0]
        ELSE [status |-> "loaded", batch_size |-> v.val]

\* load_config: the checks on pipeline.batch_size, and the int() of
\* create_drive_manager on the value it lets through
load_config(y) ==
    LET v == setdefault_batch_size(y)
    IN  IF ~isinstance_int(v)
        THEN [status |-> "raised", batch_size |-> 0]
        ELSE IF v.val < MinBatch \/ v.val > MaxBatch
        THEN [status |-> "raised", batch_size |-> 0]
        ELSE [status |-> "loaded", batch_size |-> v.val]

InitConfigIdle ==
    /\ config_yaml = [type |-> "absent", val |-> 0]
    /\ cfg = NotLoaded

\* run_pipeline: load_config, then Pipeline(cfg) with its DriveManager
LoadConfig ==
    /\ cfg.status = "none"
    /\ cfg' = load_config(config_yaml)
    /\ batch_size' = IF cfg'.status = "loaded" THEN cfg'.batch_size
                     ELSE batch_size
    /\ UNCHANGED <<mainVars, config_yaml, blogVars, raceVars, now, storeVars, driveVars,
                   files, all_images, new_images, pc, tracked, gitVars,
                   runVars>>

\* the processes that run the pipeline at the same time
Runners == {1, 2}

\* a run that is about to select; cached is its StateClient's
\* _state_file_id, copy the state its mark_processed downloaded, pushed the
\* images shown by the post of the commit it pushed
RunnerStart == [pc |-> "select", images |-> <<>>, idx |-> 0,
                copy |-> NoState, cached |-> FALSE, pushed |-> {}]

InitPipeline ==
    /\ runner = [r \in Runners |-> RunnerStart]
    /\ InitMainIdle
    /\ InitRetryIdle
    /\ InitCaptionsIdle
    /\ mock_mode = TRUE
    /\ downloaded = <<>>
    /\ build_result = NoBuild
    /\ mark_idx = 0
    /\ ok_count = 0
    /\ result = NoResult
    /\ calls = {}
    /\ failed_at = "none"
    /\ doc_at_start = NoState
    /\ steps = <<>>
    /\ mark_log = <<>>
    /\ ls_files_failed = FALSE

\* the Pipeline was built from a configuration loaded before
InitRun == InitPipeline /\ InitConfigIdle

\* the pipeline: runs of run_pipeline, one after the other, with the
\* batch size of config.yaml
Init ==
    /\ InitClock /\ InitStore /\ InitDriveEmpty /\ InitRun
    /\ batch_size \in BatchSizes
    /\ files = <<>> /\ all_images = <<>> /\ new_images = <<>>
    /\ pc = "idle"
    /\ tracked = {}
    /\ wt = EmptyTree
    /\ head = EmptyTree
    /\ remote = EmptyTree
    /\ landed = {}
    /\ git_calls = {}

Next ==
    \/ NextDay \/ Upload \/ Preflight \/ PickAndDownload \/ Generate
    \/ Build \/ GitPublish \/ UpdateState \/ Exit

Spec == Init /\ [][Next]_vars

InitState ==
    InitClock /\ InitStore /\ InitDriveEmpty /\ InitPickIdle /\ InitGit /\ InitRun

NextState == Tick \/ CallIsProcessed \/ CallMarkProcessed \/ NewStateClient

SpecState == InitState /\ [][NextState]_vars

\* ------------------------------------------- selection over any listing
\* The folder holds any of the images, created one after the other (image
\* i at instant i) and modified at any time since; any of them is recorded
\* as processed.
\* a state document that records exactly the images of P
RECURSIVE records_of(_)
records_of(seq) ==
    IF seq = <<>> THEN <<>>
    ELSE Append(records_of(SubSeq(seq, 1, Len(seq) - 1)),
                [file_id |-> seq[Len(seq)], post_slug |-> "s1",
                 processed_at |-> 0])

InitSelect ==
    /\ InitClock
    /\ folder \in SUBSET Listed
    /\ created_time = [i \in Listed |-> i]
    /\ \E delay \in [Listed -> Delays] :
          /\ \A i \in Listed \ folder : delay[i] = 0
          /\ modified_time = [i \in Listed |-> i + delay[i]]
    /\ \E P \in SUBSET folder :
          state_json = [exists |-> TRUE, version |-> 1,
                        has_processed |-> TRUE,
                        processed |-> records_of(
                            sort_by_modified(CHOOSE s \in Orders(P) : TRUE,
                                             [i \in Listed |-> i]))]
    /\ state_file_id = FALSE
    /\ last_call = NoCall
    /\ batch_size \in BatchSizes
    /\ files = <<>>
    /\ all_images = <<>>
    /\ new_images = <<>>
    /\ pc = "idle"
    /\ InitGit
    /\ InitRun

\* pick_new_images is called; Drive returns the folder in any order
CallPick ==
    /\ pc = "idle"
    /\ \E fs \in Pages(folder) :
          LET all == _list_images_in_folder(fs, modified_time)
              r == pick_new_images(all, Client, batch_size, "none")
          IN  /\ files' = fs
              /\ all_images' = all
              /\ new_images' = r.images
              /\ state_json' = r.doc
              /\ state_file_id' = r.cached
    /\ pc' = "picked"
    /\ UNCHANGED <<mainVars, cfgVars, blogVars, raceVars, now, last_call, driveVars, batch_size, tracked, gitVars,
                   runVars>>

NextSelect == CallPick

SpecSelect == InitSelect /\ [][NextSelect]_vars


\* ------------------------------------------------- retry(fn, tries=n)
InitRetry ==
    /\ InitClock /\ InitStore /\ InitDriveEmpty /\ InitPickIdle /\ InitGit
    /\ runner = [r \in Runners |-> RunnerStart]
    /\ InitMainIdle
    /\ InitConfigIdle
    /\ mock_mode = TRUE
    /\ downloaded = <<>>
    /\ build_result = NoBuild
    /\ mark_idx = 0
    /\ ok_count = 0
    /\ result = NoResult
    /\ calls = {}
    /\ failed_at = "none"
    /\ doc_at_start = NoState
    /\ steps = <<>>
    /\ mark_log = <<>>
    /\ ls_files_failed = FALSE
    /\ InitCaptionsIdle
    /\ base_delay \in 1..MaxBase
    /\ max_delay \in 1..MaxDelay
    /\ last_sleep = NoSleep
    /\ tries \in 1..MaxTries
    /\ outcomes \in [1..tries -> Outcomes]
    /\ retry_st = RetryStart

NextRetry == RetryAttempt

SpecRetry == InitRetry /\ [][NextRetry]_vars

\* ------------------------------------ StateClient over any stored document
\* The folder holds no state.json, or one written by anybody: with or
\* without a version, with or without a processed list.
InitDoc ==
    /\ InitClock /\ InitDriveEmpty /\ InitPickIdle /\ InitGit /\ InitRun
    /\ \E ex \in BOOLEAN, v \in {0, 1}, hp \in BOOLEAN,
          P \in SUBSET Images :
          /\ ~ex => (v = 0 /\ ~hp)
          /\ ~hp => P = {}
          /\ \E seq \in Orders(P) :
                state_json = [exists |-> ex, version |-> v,
                              has_processed |-> hp,
                              processed |-> records_of(seq)]
    /\ state_file_id = FALSE
    /\ last_call = NoCall

NextDoc ==
    \/ CallDownloadState \/ CallIsProcessed \/ CallMarkProcessed
    \/ NewStateClient

SpecDoc == InitDoc /\ [][NextDoc]_vars

\* ------------------------------ the batch size, from config.yaml to a pick
\* config.yaml holds any value for pipeline.batch_size; the folder holds
\* NumListed unprocessed images.
InitConfig ==
    /\ InitClock /\ InitStore /\ InitGit /\ InitPipeline
    /\ folder = Listed
    /\ created_time = [i \in Listed |-> i]
    /\ modified_time = [i \in Listed |-> i]
    /\ batch_size = MaxBatch
    /\ files = <<>> /\ all_images = <<>> /\ new_images = <<>>
    /\ pc = "idle"
    /\ config_yaml \in YamlValues
    /\ cfg = NotLoaded

\* a Pipeline exists only after load_config returned
NextConfig ==
    \/ LoadConfig
    \/ (cfg.status = "loaded" /\ CallPick)

SpecConfig == InitConfig /\ [][NextConfig]_vars

\* ------------------------------------------------- runs of blog.py's main
InitBlog ==
    /\ InitClock /\ InitStore /\ InitDriveEmpty /\ InitPickIdle /\ InitGit
    /\ InitRun

NextBlog ==
    \/ MainLoad \/ MainBatch \/ MainSave \/ MainPush \/ MainExit
    \/ Damage

SpecBlog == InitBlog /\ [][NextBlog]_vars

\* ---------------------- two runs of the pipeline at the same time
\* Both run in the same checkout against the same Drive folder and state
\* document; every call succeeds (mock AI) and images may arrive meanwhile.
\* Each run is Pipeline.run with its own StateClient.
ClientOf(r) == [doc |-> state_json, cached |-> runner[r].cached]

\* the run goes on with its next image, or is through
advance(rn) ==
    IF rn.idx = Len(rn.images)
    THEN [rn EXCEPT !.pc = "done"]
    ELSE [rn EXCEPT !.pc = "commit", !.idx = @ + 1]

\* mutant: the write is built on the document as stored at the time of
\* the write
mark_write_guarded(copy, stored, id, slug, t) ==
    IF Recorded(stored, id) THEN stored ELSE with_record(stored, id, slug, t)

\* mark_processed: the state handed to upload_state is the downloaded copy
\* with the record appended; the stored document is not looked at again
mark_write(copy, stored, id, slug, t) == with_record(copy, id, slug, t)

\* _pick_and_download
TwoSelect(r) ==
    /\ runner[r].pc = "select"
    /\ \E fs \in Pages(folder) :
          LET all == _list_images_in_folder(fs, modified_time)
              res == pick_new_images(all, ClientOf(r), batch_size, "none")
          IN  /\ state_json' = res.doc
              /\ wt' = [wt EXCEPT !.incoming = @ \cup Range(res.images)]
              /\ runner' = [runner EXCEPT ![r] =
                    [@ EXCEPT !.cached = res.cached,
                              !.images = res.images,
                              !.pc = IF nothing_to_do(res.images)
                                     THEN "done" ELSE "build"]]
    /\ UNCHANGED <<mainVars, cfgVars, blogVars, now, state_file_id, last_call, driveVars,
                   pickVars, pc, tracked, head, remote, landed, git_calls,
                   runVars>>

\* _ai_generate (mock) and _build_content
TwoBuild(r) ==
    /\ runner[r].pc = "build"
    /\ wt' = [wt EXCEPT !.media = @ \cup Range(runner[r].images),
                        !.posts[now] = runner[r].images]
    /\ runner' = [runner EXCEPT ![r].pc = "publish"]
    /\ UNCHANGED <<mainVars, cfgVars, blogVars, now, storeVars, driveVars, pickVars, pc, tracked,
                   head, remote, landed, git_calls, runVars>>

\* _git_publish
TwoPublish(r) ==
    /\ runner[r].pc = "publish"
    /\ LET p == publish(wt, head, remote, "none")
       IN  /\ head' = p.head
           /\ remote' = p.remote
           /\ landed' = landed \cup PostedIn(p.remote)
           /\ git_calls' = p.calls
           /\ runner' = [runner EXCEPT ![r] =
                 [@ EXCEPT !.pc = "commit", !.idx = 1,
                           !.pushed = IF p.remote # remote
                                      THEN Range(p.remote.posts[now])
                                      ELSE {}]]
    /\ UNCHANGED <<mainVars, cfgVars, blogVars, now, storeVars, driveVars, pickVars, pc, tracked,
                   wt, runVars>>

\* _update_state, mark_processed up to the duplicate check: download_state
TwoMarkRead(r) ==
    /\ runner[r].pc = "commit"
    /\ LET d == download_state(ClientOf(r), "none")
           id == runner[r].images[runner[r].idx]
       IN  /\ ~d.raised
           /\ state_json' = d.doc
           /\ runner' = [runner EXCEPT ![r] =
                 IF Recorded(d.state, id)
                 THEN advance([@ EXCEPT !.cached = d.cached])
                 ELSE [@ EXCEPT !.cached = d.cached, !.copy = d.state,
                                !.pc = "upload"]]
    /\ UNCHANGED <<mainVars, cfgVars, blogVars, now, state_file_id, last_call, driveVars,
                   pickVars, pc, tracked, gitVars, runVars>>

\* mark_processed from the append on: upload_state
TwoMarkWrite(r) ==
    /\ runner[r].pc = "upload"
    /\ LET id == runner[r].images[runner[r].idx]
           u == upload_state(ClientOf(r),
                             mark_write(runner[r].copy, state_json, id,
                                        MockSlug, now), "none")
       IN  /\ ~u.raised
           /\ state_json' = u.doc
           /\ runner' = [runner EXCEPT ![r] =
                 advance([@ EXCEPT !.cached = u.cached, !.copy = NoState])]
    /\ UNCHANGED <<mainVars, cfgVars, blogVars, now, state_file_id, last_call, driveVars,
                   pickVars, pc, tracked, gitVars, runVars>>

InitTwo ==
    /\ InitClock /\ InitStore /\ InitDriveEmpty /\ InitPickIdle
    /\ InitGit /\ InitRun

NextTwo ==
    \/ Upload
    \/ \E r \in Runners :
          \/ TwoSelect(r) \/ TwoBuild(r) \/ TwoPublish(r)
          \/ TwoMarkRead(r) \/ TwoMarkWrite(r)

SpecTwo == InitTwo /\ [][NextTwo]_vars

\* ------------------------------------- repeated runs in which nothing fails
\* The folder holds one image more than a listing page; no image arrives.
Backlog == 1..(pageSize + 1)

InitLive ==
    /\ InitClock /\ InitStore /\ InitRun /\ InitGit
    /\ folder = Backlog
    /\ created_time = [i \in Backlog |-> i]
    /\ modified_time = [i \in Backlog |-> i]
    /\ batch_size \in BatchSizes
    /\ files = <<>> /\ all_images = <<>> /\ new_images = <<>>
    /\ pc = "idle"

\* the step the run takes raises nothing: no secret is tracked, the mock
\* AI is on, every Drive and git call answers
Succeeds ==
    /\ failed_at' = "none"
    /\ tracked' = {}
    /\ mock_mode'
    /\ \A k \in 1..Len(mark_log') : ~mark_log'[k].error

NextLive ==
    \/ Preflight /\ Succeeds
    \/ PickAndDownload /\ Succeeds
    \/ Generate /\ Succeeds
    \/ Build /\ Succeeds
    \/ GitPublish /\ Succeeds
    \/ UpdateState /\ Succeeds
    \/ Exit

\* The selection leaves its step: PickAndDownload /\ Succeeds is enabled
\* whenever pc = "select" (Drive answers, so the run goes on to the
\* generation or ends with nothing to do).
SelectReturns == pc = "select" /\ pc' \in {next_step("download"), "done"}

\* run_pipeline is started again and again, and a started run goes on
LiveFairness ==
    /\ WF_vars(Preflight /\ Succeeds)
    /\ WF_pc(SelectReturns)
    /\ WF_vars(Generate /\ Succeeds)
    /\ WF_vars(Build /\ Succeeds)
    /\ WF_vars(GitPublish /\ Succeeds)
    /\ WF_vars(UpdateState /\ Succeeds)
    /\ WF_vars(Exit)

SpecLive == InitLive /\ [][NextLive]_vars /\ LiveFairness

\* ----------------------------- ai_make_title_and_captions on any response
\* the lists of at most MaxCaptions captions
CaptionLists == UNION {[1..k -> CaptionTexts] : k \in 0..MaxCaptions}

InitCaptions ==
    /\ InitClock /\ InitStore /\ InitDriveEmpty /\ InitPickIdle /\ InitGit
    /\ runner = [r \in Runners |-> RunnerStart]
    /\ InitMainIdle
    /\ InitConfigIdle
    /\ mock_mode = TRUE
    /\ downloaded = <<>>
    /\ build_result = NoBuild
    /\ mark_idx = 0
    /\ ok_count = 0
    /\ result = NoResult
    /\ calls = {}
    /\ failed_at = "none"
    /\ doc_at_start = NoState
    /\ steps = <<>>
    /\ mark_log = <<>>
    /\ ls_files_failed = FALSE
    /\ InitRetryIdle
    /\ n_images \in 0..MaxPhotos
    /\ \E kind \in DataKinds, ct \in CaptionsTypes, caps \in CaptionLists,
          title \in {<<>>, <<"t">>} :
          /\ kind # "object" => (ct = "absent" /\ title = <<>>)
          /\ ct # "list" => caps = <<>>
          /\ (kind = "object" /\ ct = "absent") => title # <<>>
          /\ data = [kind |-> kind, title |-> title, captions_type |-> ct,
                     captions |-> caps]
    /\ ai_result = NoContent

NextCaptions == CallGenerate

SpecCaptions == InitCaptions /\ [][NextCaptions]_vars

\* =============================================================== claims
\* the processed list of the stored document
processed == state_json.processed

\* C4: mark_processed is idempotent: a call with an id that is already
\* recorded, with the same or another slug, leaves the stored document
\* unchanged, adds no second record and performs no upload.
C4_MarkProcessedIdempotent ==
    [][(CallMarkProcessed /\ Recorded(state_json, last_call'.id))
          => (state_json' = state_json /\ ~last_call'.uploaded)]_vars

\* a second call for a recorded id, with another slug, has returned
C4_Witness ==
    /\ last_call.op = "mark_processed"
    /\ ~last_call.raised /\ ~last_call.uploaded
    /\ \E k \in 1..Len(processed) :
          /\ processed[k].file_id = last_call.id
          /\ processed[k].post_slug # last_call.slug

\* C5: starting from an empty state document, after any sequence of
\* mark_processed calls of a single runner (repeated ids and failed
\* uploads included) the processed list holds at most one record per id.
C5_OneRecordPerId ==
    \A j, k \in 1..Len(processed) :
        processed[j].file_id = processed[k].file_id => j = k

\* two records are stored and the last call, for a recorded id, did nothing
C5_Witness ==
    /\ Len(processed) >= 2
    /\ last_call.op = "mark_processed"
    /\ ~last_call.uploaded /\ ~last_call.raised
    /\ Recorded(state_json, last_call.id)
    /\ state_file_id

\* the unprocessed images of the sorted listing, in listing order
Unprocessed == SelectSeq(all_images, LAMBDA i : ~Recorded(state_json, i))

\* C7: pick_new_images returns exactly min(batch_size, number of
\* unprocessed listed images) images: the earliest unprocessed ones in
\* listing order, none that is processed and none twice.
C7_PickReturnsFirstUnprocessed ==
    pc = "picked" =>
        /\ Len(new_images) = Min(batch_size, Len(Unprocessed))
        /\ new_images = SubSeq(Unprocessed, 1, Len(new_images))
        /\ \A k \in 1..Len(new_images) : ~Recorded(state_json, new_images[k])
        /\ \A j, k \in 1..Len(new_images) :
              new_images[j] = new_images[k] => j = k

\* the backlog is larger than the batch and a processed image was skipped
C7_Witness ==
    /\ pc = "picked"
    /\ Len(Unprocessed) > batch_size
    /\ Len(new_images) = batch_size
    /\ batch_size >= 2
    /\ Recorded(state_json, all_images[1])
    /\ files # all_images

\* the batch is in ascending order of the time stamp ts and holds an
\* unprocessed image that no unprocessed listed image precedes in ts
OldestFirst(ts) ==
    /\ \A j, k \in 1..Len(new_images) :
          j < k => ts[new_images[j]] <= ts[new_images[k]]
    /\ Unprocessed # <<>> =>
          \E k \in 1..Len(new_images) :
              \A u \in Range(Unprocessed) : ts[new_images[k]] <= ts[u]

C1_ProcessedOnlyIfLanded ==
    \A i \in Images : Recorded(state_json, i) => i \in landed

\* C2: within one run mark_processed is called only after publish has
\* returned without raising; if a step up to publish raises, the run ends
\* with the failed result and mark_processed is never called.
C2_MarkOnlyAfterPublish ==
    /\ "mark_processed" \in calls => "publish_returned" \in calls
    /\ failed_at # "none" =>
          /\ "mark_processed" \notin calls
          /\ pc = "done"
          /\ result = failed_result(build_result, result.errors[1])

\* a run has published and has called mark_processed for all its images
C2_Witness ==
    /\ pc = "done"
    /\ result.ok
    /\ "mark_processed" \in calls
    /\ Len(downloaded) = 2

\* C3: when a git command of publish fails, the run returns ok=False with
\* processed_count 0 and a non-empty errors list, and the stored records
\* are those that existed before the run.
C3_PublishFailureKeepsState ==
    failed_at = "publish" =>
        /\ pc = "done"
        /\ ~result.ok
        /\ result.processed_count = 0
        /\ result.errors # <<>>
        /\ processed = doc_at_start.processed

\* the push failed after the commit, in a run that started with records
C3_Witness ==
    /\ failed_at = "publish"
    /\ "push" \in git_calls
    /\ head # remote
    /\ doc_at_start.processed # <<>>

\* C6: if a secret file is reported as tracked, run returns ok=False with
\* the security-block message and invokes none of select, download,
\* generate, build, publish, mark_processed; the state document is
\* neither read nor written.
C6_SecurityBlock ==
    tracked # {} =>
        /\ pc = "done"
        /\ ~result.ok
        /\ \E k \in 1..Len(secrets) :
              secrets[k] \in tracked /\ result.message = BlockMessage(k)
        /\ calls = {"preflight"}
        /\ git_calls = {}
        /\ ~state_file_id
        /\ state_json = doc_at_start

\* a run is blocked although the first secret of the list is not tracked,
\* while images wait in the folder
C6_Witness ==
    /\ pc = "done"
    /\ tracked = {"token.json", ".env"}
    /\ folder # {}
    /\ ~Recorded(state_json, 1)

\* C10: when the working tree has no pending changes, publish returns
\* without running git add, git commit or git push (it can only raise in
\* one of the three checks it starts with).
C10_NoChangesNoPush ==
    [][(pc = "publish" /\ pc' # "publish" /\ ~has_changes(wt, head))
          => /\ git_calls' \subseteq ChecksRun
             /\ head' = head /\ remote' = remote
             /\ \/ pc' = next_step("publish")
                \/ result'.errors[1] \in ChecksRun]_vars

\* publish has returned without a push: nothing was pending
C10_Witness ==
    /\ pc = "commit"
    /\ ~has_changes(wt, head)
    /\ git_calls = ChecksRun
    /\ "publish_returned" \in calls

\* --------------------------------------------------------- claims on retry
\* the first call of fn that succeeds, if there is one
FirstSuccess ==
    {k \in 1..tries : outcomes[k].ok /\ \A j \in 1..(k - 1) : ~outcomes[j].ok}

\* C9: retry(fn, tries=n), n >= 1, returns the value of the first call of
\* fn that succeeds when one of the first n calls does, and raises the
\* exception of the n-th call when all n calls fail.
C9_RetryResult ==
    /\ retry_st.status = "returned" =>
          \E k \in FirstSuccess :
              retry_st.attempt = k /\ retry_st.value = outcomes[k].val
    /\ retry_st.status = "raised" =>
          /\ FirstSuccess = {}
          /\ retry_st.attempt = tries
          /\ retry_st.value = outcomes[tries].val
    /\ retry_st.status = "running" =>
          /\ retry_st.attempt < tries
          /\ \A j \in 1..retry_st.attempt : ~outcomes[j].ok

\* three calls failed, with different exceptions, and the fourth returned
C9_Witness ==
    /\ tries = 4
    /\ retry_st.status = "returned"
    /\ retry_st.attempt = 4
    /\ retry_st.sleeps = 3
    /\ outcomes[1].val # outcomes[3].val

\* ------------------------------------------------- claims on the commit step
\* the images of the batch whose mark_processed returned normally
MarkedOk == {k \in 1..Len(mark_log) : ~mark_log[k].error}

\* C11: if mark_processed raises for some images in the commit step, the
\* failure is logged for that image, the remaining images of the batch are
\* still attempted, none is attempted twice, the publish is not undone and
\* the run returns ok=True with processed_count equal to the number of
\* images whose mark_processed returned normally.
C11_MarkFailureIsLoggedOnly ==
    /\ [](/\ Len(mark_log) <= Len(downloaded)
          /\ \A k \in 1..Len(mark_log) : mark_log[k].file_id = downloaded[k]
          /\ (pc = "done" /\ "mark_processed" \in calls) =>
                /\ Len(mark_log) = Len(downloaded)
                /\ failed_at = "none"
                /\ result.ok
                /\ result.errors = <<>>
                /\ result.processed_count = Cardinality(MarkedOk))
    /\ [][UpdateState => UNCHANGED <<wt, head, remote, landed>>]_vars

\* mark_processed raised for the first image of the batch and returned for
\* the second one; the post of the batch is at the remote
C11_Witness ==
    /\ pc = "done"
    /\ Len(mark_log) = 2
    /\ mark_log[1].error /\ ~mark_log[2].error
    /\ result.ok /\ result.processed_count = 1
    /\ Range(downloaded) \subseteq PostedIn(remote)

\* --------------------------------------------------- claims on the captions
\* the response parsed to an object that holds a list of captions
ParsedWithCaptions ==
    /\ ai_result.returned
    /\ data.kind = "object"
    /\ data.captions_type = "list"

\* the returned captions are n: the first min(k, n) are the service's,
\* each passed through conv, in their order, and the others are empty
CaptionsCoerced(conv(_)) ==
    /\ Len(ai_result.captions) = n_images
    /\ \A k \in 1..n_images :
          ai_result.captions[k] =
              IF k <= Len(data.captions) THEN conv(data.captions[k]) ELSE <<>>

Same(t) == t

\* C12 as stated: when the response parses to an object with k captions for
\* n images, exactly n captions are returned: the first min(k, n) are the
\* service's captions in their order and, when k < n, the last n - k are
\* empty strings.
C12_CaptionsCoercedVerbatim == ParsedWithCaptions => CaptionsCoerced(Same)

\* C12 as amended: exactly n captions are returned; the first min(k, n) are
\* the service's captions with the surrounding white space removed (and cut
\* to 500 characters), in their order, and the last n - k are empty.
C12_CaptionsCoercedNormalized ==
    ParsedWithCaptions => CaptionsCoerced(normalize_caption)

\* two captions for three images, one of them with white space around it
C12_Witness ==
    /\ ParsedWithCaptions
    /\ n_images = 3
    /\ Len(data.captions) = 2
    /\ data.captions[1] = <<" ", "x">>
    /\ ai_result.captions = <<<<"x">>, data.captions[2], <<>>>>

\* ------------------------------------------------ claims on the run's path
\* the operations of a run that come after the selection
AfterSelect == {"download_images", "generate_photo_captions",
                "generate_post_markdown", "build", "publish",
                "mark_processed"}

\* the run passed the preflight and its selection, which did not raise,
\* met no image that the state document did not record
SelectedNothing ==
    /\ pc = "done"
    /\ tracked = {}
    /\ failed_at # "select"
    /\ \A i \in folder : Recorded(doc_at_start, i)

\* C13: when selection finds no unprocessed image, the run ends as a normal
\* success: ok=True, processed_count 0, and none of download, generate,
\* build, publish, mark_processed is invoked.
C13_NoNewImagesIsSuccess ==
    SelectedNothing =>
        /\ result.ok
        /\ result.processed_count = 0
        /\ result.errors = <<>>
        /\ calls \cap AfterSelect = {}
        /\ git_calls = {}
        /\ mark_log = <<>>
        /\ state_json.processed = doc_at_start.processed

\* the folder holds images, all of them recorded, and the run has ended
C13_Witness ==
    /\ SelectedNothing
    /\ Cardinality(folder) = 2
    /\ "is_processed" \in calls
    /\ result.message = "No new images."

\* ------------------------------------ claims on the state and the remote
\* C14: whenever a run has finished and a post referencing an image has
\* landed at the publish destination, the image's id is recorded in the
\* state document.
C14_LandedImpliesRecorded ==
    pc \in {"done", "idle"} =>
        \A i \in Images : i \in PostedIn(remote) => Recorded(state_json, i)

\* the posts at the remote that show image i
PostsShowing(i) == {t \in Days : i \in Range(remote.posts[t])}

\* C15: no sequence of runs interrupted by failures at any step (also
\* between a successful push and the state commit) leaves the same source
\* image published in two posts at the destination.
C15_NoDuplicatePost ==
    \A i \in Images : Cardinality(PostsShowing(i)) <= 1

\* ------------------------------------------ claims on failures of a step
\* C16: a failure of content generation never blocks the publication of
\* the batch: the run goes on with placeholder content and still reaches
\* the publish step.
C16_GenerationFailureStillPublishes ==
    (pc = "done" /\ "generate_photo_captions" \in calls /\ ~mock_mode) =>
        "publish" \in calls

\* C17: a download failure for one image of the selected batch removes only
\* that image from the batch; the run goes on with the remaining images
\* instead of failing as a whole (a run that has downloaded an image
\* reaches the generation).
C17_DownloadFailureDropsImage ==
    (pc = "done" /\ "download_images" \in calls /\ wt.incoming # {}) =>
        /\ failed_at # "download"
        /\ "generate_photo_captions" \in calls

\* ------------------------------------------- claims on the stored document
\* download_state keeps the hands off a stored document
DownloadKeepsDocument ==
    state_json.exists => state_json' = state_json

\* C18 as stated: download_state raises whenever the stored document lacks
\* a required field of the schema (version, processed list), and never
\* replaces, empties or rewrites the stored document.
C18_RaisesOnAnyMissingField ==
    [][CallDownloadState =>
          /\ DownloadKeepsDocument
          /\ (state_json.exists
                /\ (state_json.version = 0 \/ ~state_json.has_processed))
                => last_call'.raised]_vars

\* C18 as amended: download_state raises whenever the stored document lacks
\* the processed list; a document that only lacks the version is returned
\* with version 1 and the stored records; download_state never replaces,
\* empties or rewrites the stored document.
C18_RaisesOnMissingProcessed ==
    [][CallDownloadState =>
          /\ DownloadKeepsDocument
          /\ (state_json.exists /\ ~state_json.has_processed)
                => last_call'.raised
          /\ ~last_call'.raised =>
                /\ last_call'.state.version >= 1
                /\ last_call'.state.version =
                      (IF state_json'.version = 0 THEN 1
                       ELSE state_json'.version)
                /\ last_call'.state.processed = state_json'.processed]_vars

\* a document without version, holding two records, was downloaded
C18_Witness ==
    /\ last_call.op = "download_state"
    /\ ~last_call.raised
    /\ state_json.version = 0
    /\ last_call.state.version = 1
    /\ Len(last_call.state.processed) = 2
    /\ state_json.processed = last_call.state.processed

\* ------------------------------------------------- claims on the result
\* the messages of the results that run constructs
ResultMessages ==
    {"Pipeline completed successfully.", "No new images.", "Pipeline failed."}
        \cup {BlockMessage(k) : k \in 1..Len(secrets)}

\* C19: run returns a PipelineResult on every path (security block, empty
\* batch, success, exception in any step): an exception ends the run with
\* a result at once, and every ok=False result carries a non-empty errors
\* list.
C19_AlwaysStructuredResult ==
    /\ failed_at # "none" => pc = "done"
    /\ pc = "done" =>
          /\ result.message \in ResultMessages
          /\ result.ok <=> (failed_at = "none" /\ tracked = {})
          /\ ~result.ok => result.errors # <<>>
          /\ result.ok => result.errors = <<>>
    /\ pc \notin {"done", "idle"} => (failed_at = "none" /\ tracked = {})

\* the build raised: the failed result names no post
C19_Witness ==
    /\ pc = "done"
    /\ failed_at = "build"
    /\ ~result.ok
    /\ result.errors = <<"build">>
    /\ result.post_path = "None"

\* ---------------------------------------------- claims on the step order
StepOrder == <<"preflight", "select", "download", "generate", "build",
               "publish", "commit">>

\* C20: a run executes its steps in the fixed order preflight, select,
\* download, generate, build, publish, commit; each step runs at most once
\* per run and only after the previous one succeeded, and no step runs
\* after a step has failed.
C20_StepsInFixedOrder ==
    /\ [](/\ Len(steps) <= Len(StepOrder)
          /\ steps = SubSeq(StepOrder, 1, Len(steps))
          /\ failed_at # "none" =>
                (pc = "done" /\ steps[Len(steps)] = failed_at))
    /\ [][(steps # <<>> /\ steps' # <<>>) =>
             /\ SubSeq(steps', 1, Len(steps)) = steps
             /\ (failed_at # "none" \/ pc = "done") => steps' = steps]_vars

\* a run went through all seven steps and recorded its two images
C20_Witness ==
    /\ pc = "done"
    /\ steps = StepOrder
    /\ failed_at = "none"
    /\ Len(mark_log) = 2
    /\ \A i \in Range(downloaded) : Recorded(state_json, i)

\* ------------------------------------------------ claims on what is pushed
\* C21: whenever publish returns without raising, the remote branch holds
\* every local commit: a commit of an earlier publish whose push failed
\* does not stay unpushed after a later publish reported success.
C21_PublishReturnsPushed ==
    [][(pc = "publish" /\ pc' = next_step("publish")) => remote' = head']_vars

\* C22: files left on disk by a run that failed before publishing
\* (downloaded images, copied media, a written post) are never pushed by
\* the publish of a later run: a publish pushes only the artifact of its
\* own run, that is the images it downloaded and the post of its day.
C22_PublishOnlyOwnArtifact ==
    [][GitPublish =>
          /\ remote'.incoming \subseteq remote.incoming \cup Range(downloaded)
          /\ remote'.media \subseteq remote.media \cup Range(downloaded)
          /\ \A t \in Days \ {now} : remote'.posts[t] = remote.posts[t]]_vars

\* ------------------------------------------------- claims on the secrets
\* C23: the security preflight fails closed: a run proceeds past the
\* preflight only if every secret file was positively determined to be
\* untracked; when the check itself errors (git unavailable, not a
\* repository) the run is blocked.
C23_PreflightFailsClosed ==
    [][Preflight =>
          (ls_files_failed' => (pc' = "done" /\ ~result'.ok))]_vars

\* C24: no run pushes a commit that contains client_secret.json,
\* token.json or .env: a secret file that is in the repository directory
\* but untracked when the preflight runs is never staged and pushed by
\* the publish step of that run.
C24_NoSecretPushed == remote.secrets = {}

\* ------------------------------------------------- claims on the progress
\* C25: under repeated runs in which every step succeeds and no new image
\* arrives, every image of the input folder is eventually recorded as
\* processed, also when the folder holds more images than fit in one
\* listing page.
C25_EveryImageEventuallyRecorded ==
    <>(\A i \in folder : Recorded(state_json, i))

\* ------------------------------------------- claims on the state document
\* the records P are the first records of Q
IsPrefix(P, Q) == Len(P) <= Len(Q) /\ SubSeq(Q, 1, Len(P)) = P

\* the last call was mark_processed and it got as far as upload_state,
\* which raised
UploadFailed(c) == c.op = "mark_processed" /\ c.raised /\ c.uploaded

\* C27: mark_processed never removes or alters an existing record: over any
\* sequence of calls by a single runner the stored records only grow, a
\* successful call for a new id adds exactly one record (the id with the
\* slug and the time of the call), a call for a recorded id changes
\* nothing, so that each id keeps the slug and timestamp of its first
\* successful commit.
C27_RecordsOnlyGrow ==
    /\ [][IsPrefix(state_json.processed, state_json'.processed)]_vars
    /\ [][CallMarkProcessed =>
            LET P == state_json.processed
                Q == state_json'.processed
                c == last_call'
            IN  /\ Len(Q) <= Len(P) + 1
                /\ (~c.raised /\ ~Recorded(state_json, c.id)) =>
                       Q = Append(P, [file_id |-> c.id, post_slug |-> c.slug,
                                      processed_at |-> now])
                /\ Recorded(state_json, c.id) => Q = P]_vars

\* a second record was added behind an existing one
C27_Witness ==
    /\ last_call.op = "mark_processed"
    /\ ~last_call.raised /\ last_call.uploaded
    /\ Len(state_json.processed) = 2
    /\ state_json.processed[2].file_id = last_call.id

\* C28: if the upload inside mark_processed fails, the stored document is
\* unchanged (the new record is absent), nothing of the modified copy is
\* kept by the client, and a following is_processed for that id returns
\* false.
C28_FailedUploadLeavesDocument ==
    /\ [][(CallMarkProcessed /\ UploadFailed(last_call')) =>
            /\ state_json'.processed = state_json.processed
            /\ state_json.exists => state_json' = state_json
            /\ ~Recorded(state_json', last_call'.id)
            /\ LET r == is_processed([doc |-> state_json',
                                      cached |-> state_file_id'],
                                     last_call'.id, "none")
               IN  ~r.raised /\ ~r.result]_vars
    /\ [][(UploadFailed(last_call) /\ CallIsProcessed
            /\ last_call'.id = last_call.id /\ ~last_call'.raised) =>
            ~last_call'.result]_vars

\* the upload failed for the second image while the first is recorded
C28_Witness ==
    /\ UploadFailed(last_call)
    /\ Len(state_json.processed) = 1
    /\ state_json.processed[1].file_id # last_call.id

\* C29: every is_processed call answers from the document as stored at
\* the time of the call, also when the client already holds the file id:
\* a record committed before the call is seen by it.
C29_IsProcessedReadsStored ==
    [][CallIsProcessed =>
          (last_call'.raised
              \/ last_call'.result = Recorded(state_json, last_call'.id))]_vars

\* a client that loaded the document before the commit sees the record
C29_Witness ==
    /\ last_call.op = "is_processed"
    /\ ~last_call.raised /\ last_call.result
    /\ state_file_id
    /\ Len(state_json.processed) = 2

\* a StateClient call is made
StateCall == CallDownloadState \/ CallIsProcessed \/ CallMarkProcessed

\* C30: when no state document exists the first load creates and stores
\* the document {"version": 1, "processed": []} and returns it; a document
\* is created only when none exists and the client holds no file id, so
\* later loads by the same client reuse the document and never create a
\* second one.
C30_CreatesOnceWhenAbsent ==
    [][StateCall =>
          LET c == last_call'
          IN  /\ c.created => (~state_json.exists /\ ~state_file_id)
              /\ c.created => (state_json'.exists /\ state_file_id')
              /\ (CallDownloadState /\ ~state_json.exists /\ ~c.raised) =>
                    /\ c.created
                    /\ c.state = empty_state
                    /\ state_json' = empty_state
              /\ state_file_id => (state_file_id' /\ state_json'.exists)
              /\ state_json.exists => state_json'.exists]_vars

\* the first load found no document, created the empty one and returned it
C30_Witness ==
    /\ last_call.op = "download_state"
    /\ last_call.created /\ ~last_call.raised
    /\ last_call.state = empty_state
    /\ state_json = empty_state
    /\ state_file_id

\* ------------------------------------------------ claims on two runners
\* C26: two runs of the pipeline against the same state document are not
\* kept apart: each run selects whatever the stored document does not
\* record at that moment, and mark_processed uploads the copy it downloaded
\* plus its record whatever has been stored since (no compare-and-swap).
\* Hence there is an interleaving in which both select and publish the
\* same image (the witness).
C26_UnguardedReadModifyWrite ==
    [][\A r \in Runners :
          /\ TwoSelect(r) =>
                \A k \in 1..Len(runner'[r].images) :
                    ~Recorded(state_json, runner'[r].images[k])
          /\ TwoMarkWrite(r) =>
                state_json'.processed =
                    Append(runner[r].copy.processed,
                           [file_id |-> runner[r].images[runner[r].idx],
                            post_slug |-> MockSlug,
                            processed_at |-> now])]_vars

\* both runs selected the same image and each pushed a commit whose post
\* shows it
C26_Witness ==
    \E i \in Images :
        \A r \in Runners :
            /\ i \in Range(runner[r].images)
            /\ i \in runner[r].pushed

AllFail == \A k \in 1..tries : ~outcomes[k].ok

\* C32: retry ends after at most `tries` calls of fn: it never makes a
\* call beyond the tries-th, it sleeps only between two calls (never after
\* the call it ends with), and when every call fails it has slept exactly
\* tries - 1 times when it raises.
C32_RetryStopsAtTries ==
    /\ retry_st.attempt <= tries
    /\ retry_st.attempt = tries => retry_st.status # "running"
    /\ retry_st.status = "running" => retry_st.sleeps = retry_st.attempt
    /\ retry_st.status \in {"returned", "raised"} =>
          retry_st.sleeps = retry_st.attempt - 1
    /\ (AllFail /\ retry_st.status # "running") =>
          /\ retry_st.status = "raised"
          /\ retry_st.attempt = tries
          /\ retry_st.sleeps = tries - 1

\* all four calls failed: three sleeps, then the exception
C32_Witness ==
    /\ tries = 4
    /\ AllFail
    /\ retry_st.status = "raised"
    /\ retry_st.attempt = 4
    /\ retry_st.sleeps = 3

\* C33: the delay slept before a re-attempt never exceeds max_delay, and
\* the un-jittered delay before attempt k + 1 is
\* min(max_delay, base_delay * 2^(k - 1)).
C33_SleepWithinCap ==
    last_sleep # NoSleep =>
        /\ last_sleep.slept <= 100 * max_delay
        /\ last_sleep.delay =
              Min(max_delay, base_delay * Pow2(last_sleep.attempt - 1))

\* ------------------------------------------ claims on the generation's end
\* C34: ai_make_title_and_captions never raises for a batch of n images:
\* it returns n captions, and when the retries are exhausted or the
\* response holds no JSON object it returns the placeholder title and
\* exactly n placeholder captions.
C34_GenerationNeverRaises ==
    /\ ~ai_result.raised
    /\ ai_result.returned =>
          /\ Len(ai_result.captions) = n_images
          /\ data.kind \in {"exhausted", "unparsable"} =>
                /\ ai_result.title = DefaultTitle
                /\ ai_result.captions = [k \in 1..n_images |-> FailedCaption]

\* the retries were exhausted for three images: three placeholders
C34_Witness ==
    /\ ai_result.returned
    /\ data.kind = "exhausted"
    /\ n_images = 3
    /\ ai_result.captions = <<FailedCaption, FailedCaption, FailedCaption>>

\* --------------------------------------------------- claims on blog.py main
\* the ids that state.json holds
StoredIds(sf) == IF sf.exists THEN sf.ids ELSE <<>>

\* C35: in main the ids of a run's images are persisted to state.json only
\* if the git push of that run succeeded: after a run whose git add,
\* commit or push failed the persisted ids are those of before the run.
C35_PersistedOnlyAfterPush ==
    (blog.pc = "done" /\ blog.git # "pushed") =>
        StoredIds(state_file) = StoredIds(blog.at_start)

\* C36: in main an image whose download fails (after the retries) is left
\* out of its batch's post and is not added to processed_ids, while the
\* other images of the batch are posted, in their order, and recorded; a
\* batch in which every download fails writes no post and records no id;
\* save_state then persists exactly the recorded ids.
C36_FailedDownloadLeftOut ==
    /\ [][MainBatch =>
            LET b == blog'.batch
                post == blog'.last_post
            IN  /\ post = SelectSeq(b, LAMBDA i : i \notin blog'.failed)
                /\ blog'.processed_ids = blog.processed_ids \o post
                /\ \A i \in blog'.failed : i \notin Range(blog'.processed_ids)
                /\ post # <<>> => blog'.posts = blog.posts \cup {post}
                /\ post = <<>> =>
                      /\ blog'.posts = blog.posts
                      /\ blog'.processed_ids = blog.processed_ids]_vars
    /\ [][MainSave => StoredIds(state_file') = blog.processed_ids]_vars

\* the first download of a batch failed and the second image was posted
\* alone and recorded
C36_Witness ==
    /\ blog.pc = "index"
    /\ Len(blog.batch) = 2
    /\ blog.failed = {blog.batch[1]}
    /\ blog.last_post = <<blog.batch[2]>>
    /\ blog.last_post \in blog.posts
    /\ blog.batch[2] \in Range(StoredIds(state_file))
    /\ blog.batch[1] \notin Range(StoredIds(state_file))

\* C37: load_state never returns an empty processed-id list when
\* state.json exists but is unreadable or malformed: the corruption is
\* reported as an error, so that the ids recorded in the file are not
\* replaced by a shorter list by the save_state that follows.
C37_CorruptionIsReported ==
    (blog.loaded /\ blog.at_start.exists /\ blog.at_start.kind # "ok") =>
        /\ blog.load_raised
        /\ Len(StoredIds(state_file)) >= Len(StoredIds(blog.at_start))

\* ------------------------------------------------ claims on the post paths
\* C38: two distinct cycles that both build a post never write the same
\* post file path: when a cycle writes its post, no earlier cycle has
\* written a post at that path (also with the same title on the same day).
C38_PostPathsNeverReused ==
    [][(Build /\ build_result'.built) => wt.posts[build_result'.post_path] = <<>>]_vars

====
